---- MODULE Spec2Model ----
(***************************************************************************)
(* TinyVec<T, STACK_CAPACITY>: a vector that keeps up to STACK_CAPACITY    *)
(* elements in an inline array of Option<T> slots and moves them to a      *)
(* heap Vec<T> when one more is pushed (src/src/lib.rs).                   *)
(*                                                                         *)
(* Option<T> is modelled as a sequence of length at most one: None is <<>> *)
(* and Some(x) is <<x>>.  Rust indices are 0-based and TLA+ sequences are  *)
(* 1-based, so the slot with Rust index i is stack[i + 1].                 *)
(***************************************************************************)
EXTENDS Integers, Sequences, FiniteSets, TLC

\* ---------------------------------------------------------------- bounds
MaxCap == 2
MaxPushes == 4
MaxPops == 3
NumVals == 2
MaxCapEq == 1
MaxLenEq == 2

Vals == 1..NumVals
Caps == 0..MaxCap
Indices == 0..MaxPushes
\* next() may be called again after the iterator is exhausted
MaxNext == MaxPushes + 2

None == <<>>
Some(x) == <<x>>

VARIABLES
    tv,       \* the instance under test (Spec)
    shadow,   \* ghost: the present elements in push order
    pushes,   \* ghost: number of push calls made
    pops,     \* ghost: number of pop calls made, empty ones included
    popped,   \* ghost: number of pop calls that returned an element
    phase,    \* "owned" | "borrowed" (an iter() is alive) | "consumed" (into_iter() was called)
    it,       \* the live TinyVecIter: its idx field
    into,     \* the live TinyVecIntoIter
    obs,      \* the last call and what it returned
    fault,    \* "none", or the panic the last call ended in
    vs,       \* the instances compared and hashed (SpecEq, SpecBulk, SpecEq3)
    cmp,      \* the last comparison, hashing or bulk call and its result
    pending,  \* SpecBulk: the items instance "b" has still to push one by one
    plain     \* SpecBulk: TRUE while the instances were built by push calls only

vars == <<tv, shadow, pushes, pops, popped, phase, it, into, obs, fault, vs, cmp, pending, plain>>
specVars == <<tv, shadow, pushes, pops, popped, phase, it, into, obs, fault>>
eqVars == <<vs, cmp>>
bulkVars == <<pending, plain>>

\* ------------------------------------------------------- TinyVec (pure)

\* struct TinyVec { inner, length }: tag/stack/heap are the enum TinyVecInner,
\* cap is the const generic STACK_CAPACITY.  The field of the inactive variant
\* is kept as the empty sequence.
new(cap) ==
    [cap |-> cap, tag |-> "Stack", stack |-> [k \in 1..cap |-> None],
     heap |-> <<>>, length |-> 0]

has_spilled(v) == v.tag = "Heap"

is_empty(v) == v.length = 0

len(v) == v.length

\* Result of a call: the instance afterwards, the value returned, and the panic
\* (if any) the call ended in.
Outcome(v, ret, f) == [v |-> v, ret |-> ret, fault |-> f]

\* mutant of spill: the early return compares with <=, so a full inline array
\* is not moved to the heap
spill_late(v) ==
    IF v.length <= v.cap \/ v.tag = "Heap"
    THEN Outcome(v, None, "none")
    ELSE Outcome([v EXCEPT !.tag = "Heap", !.stack = <<>>,
                           !.heap = [k \in 1..v.cap |-> v.stack[k][1]]],
                 None, "none")

\* mutant of spill: nothing is moved, so an empty instance is left alone
spill_skips_empty(v) ==
    IF v.length < v.cap \/ v.tag = "Heap" \/ v.length = 0
    THEN Outcome(v, None, "none")
    ELSE Outcome([v EXCEPT !.tag = "Heap", !.stack = <<>>,
                           !.heap = [k \in 1..v.cap |-> v.stack[k][1]]],
                 None, "none")

\* mutant of spill: the slots are moved to the buffer from the last to the first
spill_reversed(v) ==
    IF v.length < v.cap \/ v.tag = "Heap"
    THEN Outcome(v, None, "none")
    ELSE Outcome([v EXCEPT !.tag = "Heap", !.stack = <<>>,
                           !.heap = [k \in 1..v.cap |-> v.stack[v.cap + 1 - k][1]]],
                 None, "none")

spill(v) ==
    IF v.length < v.cap \/ v.tag = "Heap"
    THEN Outcome(v, None, "none")
    ELSE IF \E k \in 1..v.cap : v.stack[k] = None
         THEN \* elm.unwrap() on an empty slot; inner was already replaced
              Outcome([v EXCEPT !.tag = "Heap", !.stack = <<>>, !.heap = <<>>],
                      None, "unwrap")
         ELSE Outcome([v EXCEPT !.tag = "Heap", !.stack = <<>>,
                                !.heap = [k \in 1..v.cap |-> v.stack[k][1]]],
                      None, "none")

\* mutant of push: length is incremented in the Stack arm only
push_heap_no_len(v, item) ==
    LET s == spill(v) IN
    IF s.fault # "none" THEN s
    ELSE IF s.v.tag = "Stack"
         THEN IF s.v.length >= Len(s.v.stack)
              THEN Outcome(s.v, None, "index")
              ELSE Outcome([s.v EXCEPT !.stack[s.v.length + 1] = Some(item),
                                       !.length = s.v.length + 1],
                           None, "none")
         ELSE Outcome([s.v EXCEPT !.heap = Append(s.v.heap, item)], None, "none")

push(v, item) ==
    LET s == spill(v) IN
    IF s.fault # "none" THEN s
    ELSE IF s.v.tag = "Stack"
         THEN IF s.v.length >= Len(s.v.stack)
              THEN Outcome(s.v, None, "index")
              ELSE Outcome([s.v EXCEPT !.stack[s.v.length + 1] = Some(item),
                                       !.length = s.v.length + 1],
                           None, "none")
         ELSE Outcome([s.v EXCEPT !.heap = Append(s.v.heap, item),
                                  !.length = s.v.length + 1],
                      None, "none")

\* mutant of pop: the Heap arm removes the first element of the buffer
pop_front(v) ==
    IF v.length = 0 THEN Outcome(v, None, "none")
    ELSE LET l == v.length - 1 IN
         IF v.tag = "Stack"
         THEN IF l >= Len(v.stack)
              THEN Outcome([v EXCEPT !.length = l], None, "index")
              ELSE Outcome([v EXCEPT !.length = l, !.stack[l + 1] = None],
                           v.stack[l + 1], "none")
         ELSE IF v.heap = <<>>
              THEN Outcome([v EXCEPT !.length = l], None, "none")
              ELSE Outcome([v EXCEPT !.length = l, !.heap = Tail(v.heap)],
                           Some(Head(v.heap)), "none")

\* mutant of pop: the elements move back into the inline array as soon as
\* they fit again
pop_unspill(v) ==
    IF v.length = 0 THEN Outcome(v, None, "none")
    ELSE LET l == v.length - 1 IN
         IF v.tag = "Stack"
         THEN IF l >= Len(v.stack)
              THEN Outcome([v EXCEPT !.length = l], None, "index")
              ELSE Outcome([v EXCEPT !.length = l, !.stack[l + 1] = None],
                           v.stack[l + 1], "none")
         ELSE IF v.heap = <<>>
              THEN Outcome([v EXCEPT !.length = l], None, "none")
              ELSE IF l <= v.cap
                   THEN Outcome([v EXCEPT !.length = l, !.tag = "Stack", !.heap = <<>>,
                                          !.stack = [k \in 1..v.cap |->
                                              IF k <= l THEN Some(v.heap[k]) ELSE None]],
                                Some(v.heap[Len(v.heap)]), "none")
                   ELSE Outcome([v EXCEPT !.length = l,
                                          !.heap = SubSeq(v.heap, 1, Len(v.heap) - 1)],
                                Some(v.heap[Len(v.heap)]), "none")

\* mutant of pop: the Stack arm copies the slot instead of taking it
pop_no_take(v) ==
    IF v.length = 0 THEN Outcome(v, None, "none")
    ELSE LET l == v.length - 1 IN
         IF v.tag = "Stack"
         THEN IF l >= Len(v.stack)
              THEN Outcome([v EXCEPT !.length = l], None, "index")
              ELSE Outcome([v EXCEPT !.length = l], v.stack[l + 1], "none")
         ELSE IF v.heap = <<>>
              THEN Outcome([v EXCEPT !.length = l], None, "none")
              ELSE Outcome([v EXCEPT !.length = l,
                                     !.heap = SubSeq(v.heap, 1, Len(v.heap) - 1)],
                           Some(v.heap[Len(v.heap)]), "none")

\* mutant of pop: the Stack arm takes the slot but length keeps its value
pop_stack_no_len(v) ==
    IF v.length = 0 THEN Outcome(v, None, "none")
    ELSE LET l == v.length - 1 IN
         IF v.tag = "Stack"
         THEN IF l >= Len(v.stack)
              THEN Outcome(v, None, "index")
              ELSE Outcome([v EXCEPT !.stack[l + 1] = None], v.stack[l + 1], "none")
         ELSE IF v.heap = <<>>
              THEN Outcome([v EXCEPT !.length = l], None, "none")
              ELSE Outcome([v EXCEPT !.length = l,
                                     !.heap = SubSeq(v.heap, 1, Len(v.heap) - 1)],
                           Some(v.heap[Len(v.heap)]), "none")

pop(v) ==
    IF v.length = 0 THEN Outcome(v, None, "none")
    ELSE LET l == v.length - 1 IN
         IF v.tag = "Stack"
         THEN IF l >= Len(v.stack)
              THEN Outcome([v EXCEPT !.length = l], None, "index")
              ELSE Outcome([v EXCEPT !.length = l, !.stack[l + 1] = None],
                           v.stack[l + 1], "none")
         ELSE IF v.heap = <<>>
              THEN Outcome([v EXCEPT !.length = l], None, "none")
              ELSE Outcome([v EXCEPT !.length = l,
                                     !.heap = SubSeq(v.heap, 1, Len(v.heap) - 1)],
                           Some(v.heap[Len(v.heap)]), "none")

\* mutant of get: the bounds check compares with >
get_off_by_one(v, index) ==
    IF index > v.length THEN Outcome(v, None, "none")
    ELSE IF v.tag = "Stack"
         THEN IF index >= Len(v.stack)
              THEN Outcome(v, None, "index")
              ELSE Outcome(v, v.stack[index + 1], "none")
         ELSE IF index < Len(v.heap)
              THEN Outcome(v, Some(v.heap[index + 1]), "none")
              ELSE Outcome(v, None, "none")

get(v, index) ==
    IF index >= v.length THEN Outcome(v, None, "none")
    ELSE IF v.tag = "Stack"
         THEN IF index >= Len(v.stack)
              THEN Outcome(v, None, "index")
              ELSE Outcome(v, v.stack[index + 1], "none")
         ELSE IF index < Len(v.heap)
              THEN Outcome(v, Some(v.heap[index + 1]), "none")
              ELSE Outcome(v, None, "none")

\* mutant of get_mut: the Heap arm hands out the last element of the buffer
get_mut_last(v, index, x) ==
    IF index >= v.length THEN Outcome(v, None, "none")
    ELSE IF v.tag = "Stack"
         THEN IF index >= Len(v.stack)
              THEN Outcome(v, None, "index")
              ELSE IF v.stack[index + 1] = None
                   THEN Outcome(v, None, "none")
                   ELSE Outcome([v EXCEPT !.stack[index + 1] = Some(x)],
                                v.stack[index + 1], "none")
         ELSE IF index < Len(v.heap)
              THEN Outcome([v EXCEPT !.heap[Len(v.heap)] = x],
                           Some(v.heap[Len(v.heap)]), "none")
              ELSE Outcome(v, None, "none")

\* get_mut(index) followed by a write of x through the returned reference,
\* as in `*(tv.get_mut(0).unwrap()) = 55`; ret is what get_mut returned.
get_mut(v, index, x) ==
    IF index >= v.length THEN Outcome(v, None, "none")
    ELSE IF v.tag = "Stack"
         THEN IF index >= Len(v.stack)
              THEN Outcome(v, None, "index")
              ELSE IF v.stack[index + 1] = None
                   THEN Outcome(v, None, "none")
                   ELSE Outcome([v EXCEPT !.stack[index + 1] = Some(x)],
                                v.stack[index + 1], "none")
         ELSE IF index < Len(v.heap)
              THEN Outcome([v EXCEPT !.heap[index + 1] = x],
                           Some(v.heap[index + 1]), "none")
              ELSE Outcome(v, None, "none")

\* mutant of extend: the producer is drained from its back
RECURSIVE extend_reversed(_, _)
extend_reversed(v, items) ==
    IF items = <<>> THEN Outcome(v, None, "none")
    ELSE LET r == push(v, items[Len(items)]) IN
         IF r.fault # "none" THEN r
         ELSE extend_reversed(r.v, SubSeq(items, 1, Len(items) - 1))

\* extend(iter): `for elm in iter { self.push(elm) }`; a panic in push ends it
RECURSIVE extend(_, _)
extend(v, items) ==
    IF items = <<>> THEN Outcome(v, None, "none")
    ELSE LET r == push(v, Head(items)) IN
         IF r.fault # "none" THEN r ELSE extend(r.v, Tail(items))

\* mutant of from: the first item of the producer is consumed before extend
from_skips_first(cap, items) ==
    extend(new(cap), IF items = <<>> THEN items ELSE Tail(items))

\* From<I>::from(value) for TinyVec<T, cap>
from(cap, items) == extend(new(cap), items)

\* ------------------------------------------------------------ iterators

\* TinyVec::iter: TinyVecIter { vec: self, idx: 0 }
iter(v) == 0

\* TinyVecIter::next on the borrowed instance v with cursor idx
IterStep(ret, idx, f) == [ret |-> ret, idx |-> idx, fault |-> f]

TinyVecIter_next(v, idx0) ==
    LET idx == idx0
        selfidx == idx0 + 1
    IN  IF v.tag = "Stack"
        THEN IF selfidx >= v.length
             THEN IterStep(None, selfidx, "none")
             ELSE IF idx >= Len(v.stack)
                  THEN IterStep(None, selfidx, "index")
                  ELSE IterStep(v.stack[idx + 1], selfidx, "none")
        ELSE IF idx < Len(v.heap)
             THEN IterStep(Some(v.heap[idx + 1]), selfidx, "none")
             ELSE IterStep(None, selfidx, "none")

\* IntoIterator::into_iter: the storage moves into the iterator; vec::IntoIter
\* is the sequence of elements not yet handed out.
into_iter(v) ==
    [tag |-> v.tag, stack |-> v.stack, heap |-> v.heap, idx |-> 0]

IntoStep(i, ret, f) == [into |-> i, ret |-> ret, fault |-> f]

\* mutant of TinyVecIntoIter::next: the bounds check uses the incremented
\* cursor, as TinyVecIter::next does
TinyVecIntoIter_next_early(i) ==
    LET idx == i.idx
        j == [i EXCEPT !.idx = i.idx + 1]
    IN  IF i.tag = "Stack"
        THEN IF j.idx >= Len(i.stack)
             THEN IntoStep(j, None, "none")
             ELSE IntoStep([j EXCEPT !.stack[idx + 1] = None], i.stack[idx + 1], "none")
        ELSE IF i.heap = <<>>
             THEN IntoStep(j, None, "none")
             ELSE IntoStep([j EXCEPT !.heap = Tail(i.heap)], Some(Head(i.heap)), "none")

TinyVecIntoIter_next(i) ==
    LET idx == i.idx
        j == [i EXCEPT !.idx = i.idx + 1]
    IN  IF i.tag = "Stack"
        THEN IF idx >= Len(i.stack)
             THEN IntoStep(j, None, "none")
             ELSE IntoStep([j EXCEPT !.stack[idx + 1] = None], i.stack[idx + 1], "none")
        ELSE IF i.heap = <<>>
             THEN IntoStep(j, None, "none")
             ELSE IntoStep([j EXCEPT !.heap = Tail(i.heap)], Some(Head(i.heap)), "none")

\* `for x in it { .. }` / collect(): call next() until it returns None
RECURSIVE collect_iter(_, _, _)
collect_iter(v, idx, acc) ==
    LET n == TinyVecIter_next(v, idx) IN
    IF n.ret = None THEN acc ELSE collect_iter(v, n.idx, Append(acc, n.ret[1]))

RECURSIVE collect_into_iter(_, _)
collect_into_iter(i, acc) ==
    LET n == TinyVecIntoIter_next(i) IN
    IF n.ret = None THEN acc ELSE collect_into_iter(n.into, Append(acc, n.ret[1]))

\* ------------------------------------------------------ equality, hashing

\* the loop `for (a, b) in self.iter().zip(other.iter())`: zip asks the left
\* iterator first and stops as soon as either side returns None
RECURSIVE eq_loop(_, _, _, _)
eq_loop(self, i, other, j) ==
    LET a == TinyVecIter_next(self, i) IN
    IF a.ret = None THEN TRUE
    ELSE LET b == TinyVecIter_next(other, j) IN
         IF b.ret = None THEN TRUE
         ELSE IF a.ret[1] # b.ret[1] THEN FALSE
              ELSE eq_loop(self, a.idx, other, b.idx)

\* mutant of eq: the storage mode takes part in the comparison
eq_with_mode(self, other) ==
    IF self.length # other.length \/ self.tag # other.tag THEN FALSE
    ELSE eq_loop(self, iter(self), other, iter(other))

eq(self, other) ==
    IF self.length # other.length THEN FALSE
    ELSE eq_loop(self, iter(self), other, iter(other))

\* what hash() feeds to the hasher: one (index, element) pair per item of
\* self.iter().enumerate(), n being enumerate's counter
RECURSIVE hash_loop(_, _, _, _)
hash_loop(v, idx, n, fed) ==
    LET e == TinyVecIter_next(v, idx) IN
    IF e.ret = None THEN fed
    ELSE hash_loop(v, e.idx, n + 1, Append(fed, <<n, e.ret[1]>>))

hash(v) == hash_loop(v, iter(v), 0, <<>>)

\* ------------------------------------------------- Spec: one instance

NoObs == [op |-> "new", arg |-> 0, ret |-> None]
NoInto == [tag |-> "Stack", stack |-> <<>>, heap |-> <<>>, idx |-> 0]
NoCmp == [op |-> "none", l |-> "a", r |-> "a", res |-> FALSE, fedL |-> <<>>, fedR |-> <<>>]

Inst == {"a", "b"}

Init ==
    /\ \E n \in Caps : tv = new(n)
    /\ shadow = <<>>
    /\ pushes = 0
    /\ pops = 0
    /\ popped = 0
    /\ phase = "owned"
    /\ it = 0
    /\ into = NoInto
    /\ obs = NoObs
    /\ fault = "none"
    /\ vs = [i \in Inst |-> new(0)]
    /\ cmp = NoCmp
    /\ pending = <<>>
    /\ plain = TRUE

Push(item) ==
    /\ phase = "owned" /\ fault = "none"
    /\ pushes < MaxPushes
    /\ LET r == push(tv, item) IN
        /\ tv' = r.v
        /\ fault' = r.fault
        /\ obs' = [op |-> "push", arg |-> item, ret |-> r.ret]
    /\ shadow' = Append(shadow, item)
    /\ pushes' = pushes + 1
    /\ UNCHANGED <<pops, popped, phase, it, into, vs, cmp, bulkVars>>

Pop ==
    /\ phase = "owned" /\ fault = "none"
    /\ pops < MaxPops
    /\ LET r == pop(tv) IN
        /\ tv' = r.v
        /\ fault' = r.fault
        /\ obs' = [op |-> "pop", arg |-> 0, ret |-> r.ret]
        /\ popped' = IF r.ret = None THEN popped ELSE popped + 1
    /\ shadow' = IF shadow = <<>> THEN shadow ELSE SubSeq(shadow, 1, Len(shadow) - 1)
    /\ pops' = pops + 1
    /\ UNCHANGED <<pushes, phase, it, into, vs, cmp, bulkVars>>

Get(index) ==
    /\ phase = "owned" /\ fault = "none"
    /\ LET r == get(tv, index) IN
        /\ tv' = r.v
        /\ fault' = r.fault
        /\ obs' = [op |-> "get", arg |-> index, ret |-> r.ret]
    /\ UNCHANGED <<shadow, pushes, pops, popped, phase, it, into, vs, cmp, bulkVars>>

GetMut(index, x) ==
    /\ phase = "owned" /\ fault = "none"
    /\ LET r == get_mut(tv, index, x) IN
        /\ tv' = r.v
        /\ fault' = r.fault
        /\ obs' = [op |-> "get_mut", arg |-> index, ret |-> r.ret]
    /\ shadow' = IF index < Len(shadow) THEN [shadow EXCEPT ![index + 1] = x] ELSE shadow
    /\ UNCHANGED <<pushes, pops, popped, phase, it, into, vs, cmp, bulkVars>>

\* let it = tv.iter(): the instance stays borrowed while `it` is alive
Iter ==
    /\ phase = "owned" /\ fault = "none"
    /\ phase' = "borrowed"
    /\ it' = iter(tv)
    /\ obs' = [op |-> "iter", arg |-> 0, ret |-> None]
    /\ UNCHANGED <<tv, shadow, pushes, pops, popped, into, fault, vs, cmp, bulkVars>>

\* it.next(); obs.arg is the cursor the call started from
IterNext ==
    /\ phase = "borrowed" /\ fault = "none"
    /\ it < MaxNext
    /\ LET r == TinyVecIter_next(tv, it) IN
        /\ it' = r.idx
        /\ fault' = r.fault
        /\ obs' = [op |-> "iter_next", arg |-> it, ret |-> r.ret]
    /\ UNCHANGED <<tv, shadow, pushes, pops, popped, phase, into, vs, cmp, bulkVars>>

\* `it` goes out of scope and the borrow ends
IterDrop ==
    /\ phase = "borrowed" /\ fault = "none"
    /\ phase' = "owned"
    /\ it' = 0
    /\ obs' = [op |-> "iter_drop", arg |-> 0, ret |-> None]
    /\ UNCHANGED <<tv, shadow, pushes, pops, popped, into, fault, vs, cmp, bulkVars>>

\* let into = tv.into_iter(): tv is moved; its last value is kept in tv for
\* reference and no call on it is possible any more
IntoIter ==
    /\ phase = "owned" /\ fault = "none"
    /\ phase' = "consumed"
    /\ into' = into_iter(tv)
    /\ obs' = [op |-> "into_iter", arg |-> 0, ret |-> None]
    /\ UNCHANGED <<tv, shadow, pushes, pops, popped, it, fault, vs, cmp, bulkVars>>

\* into.next(); obs.arg is the number of calls made before this one
IntoIterNext ==
    /\ phase = "consumed" /\ fault = "none"
    /\ into.idx < MaxNext
    /\ LET r == TinyVecIntoIter_next(into) IN
        /\ into' = r.into
        /\ fault' = r.fault
        /\ obs' = [op |-> "into_next", arg |-> into.idx, ret |-> r.ret]
    /\ UNCHANGED <<tv, shadow, pushes, pops, popped, phase, it, vs, cmp, bulkVars>>

\* tv.iter().collect() and tv.clone().into_iter().collect(), side by side
Collect ==
    /\ phase = "owned" /\ fault = "none"
    /\ obs' = [op |-> "collect", arg |-> 0,
               ret |-> <<collect_iter(tv, iter(tv), <<>>),
                         collect_into_iter(into_iter(tv), <<>>)>>]
    /\ UNCHANGED <<tv, shadow, pushes, pops, popped, phase, it, into, fault, vs, cmp, bulkVars>>

Next ==
    \/ \E item \in Vals : Push(item)
    \/ Pop
    \/ \E index \in Indices : Get(index)
    \/ \E index \in Indices, x \in Vals : GetMut(index, x)
    \/ Iter
    \/ IterNext
    \/ IterDrop
    \/ IntoIter
    \/ IntoIterNext
    \/ Collect

Spec == Init /\ [][Next]_vars

\* ------------------------------------- SpecEq: instances compared, hashed

InitEq ==
    /\ tv = new(0)
    /\ shadow = <<>>
    /\ pushes = 0
    /\ pops = 0
    /\ popped = 0
    /\ phase = "owned"
    /\ it = 0
    /\ into = NoInto
    /\ obs = NoObs
    /\ fault = "none"
    /\ vs \in [Inst -> {new(n) : n \in 0..MaxCapEq}]
    /\ cmp = NoCmp
    /\ pending = <<>>
    /\ plain = TRUE

EqPush(i, item) ==
    /\ fault = "none"
    /\ vs[i].length < MaxLenEq
    /\ LET r == push(vs[i], item) IN
        /\ vs' = [vs EXCEPT ![i] = r.v]
        /\ fault' = r.fault
    /\ cmp' = NoCmp
    /\ UNCHANGED <<tv, shadow, pushes, pops, popped, phase, it, into, obs, bulkVars>>

EqPop(i) ==
    /\ fault = "none"
    /\ LET r == pop(vs[i]) IN
        /\ vs' = [vs EXCEPT ![i] = r.v]
        /\ fault' = r.fault
    /\ cmp' = NoCmp
    /\ UNCHANGED <<tv, shadow, pushes, pops, popped, phase, it, into, obs, bulkVars>>

\* vs[l] == vs[r]
Compare(l, r) ==
    /\ fault = "none"
    /\ cmp' = [op |-> "eq", l |-> l, r |-> r, res |-> eq(vs[l], vs[r]),
               fedL |-> <<>>, fedR |-> <<>>]
    /\ UNCHANGED <<specVars, vs, bulkVars>>

\* vs[l].hash(..) and vs[r].hash(..), each into a hasher of its own
HashBoth(l, r) ==
    /\ fault = "none"
    /\ cmp' = [op |-> "hash", l |-> l, r |-> r, res |-> FALSE,
               fedL |-> hash(vs[l]), fedR |-> hash(vs[r])]
    /\ UNCHANGED <<specVars, vs, bulkVars>>

NextEq ==
    \/ \E i \in Inst, item \in Vals : EqPush(i, item)
    \/ \E i \in Inst : EqPop(i)
    \/ \E l \in Inst, r \in Inst : Compare(l, r)
    \/ \E l \in Inst, r \in Inst : HashBoth(l, r)

SpecEq == InitEq /\ [][NextEq]_vars

\* ------------------- SpecBulk: two instances fed the same items in step

\* the finite producers handed to extend and from
SeqsUpTo(n) == UNION {[1..k -> Vals] : k \in 0..n}

InitBulk ==
    /\ tv = new(0)
    /\ shadow = <<>>
    /\ pushes = 0
    /\ pops = 0
    /\ popped = 0
    /\ phase = "owned"
    /\ it = 0
    /\ into = NoInto
    /\ obs = NoObs
    /\ fault = "none"
    /\ vs \in [Inst -> {new(n) : n \in Caps}]
    /\ cmp = NoCmp
    /\ pending = <<>>
    /\ plain = TRUE

\* ta.push(item); tb.push(item)
PushBoth(item) ==
    /\ fault = "none" /\ pending = <<>>
    /\ len(vs["a"]) < MaxPushes
    /\ LET ra == push(vs["a"], item)
           rb == push(vs["b"], item)
       IN  /\ vs' = [vs EXCEPT !["a"] = ra.v, !["b"] = rb.v]
           /\ fault' = IF ra.fault # "none" THEN ra.fault ELSE rb.fault
    /\ cmp' = NoCmp
    /\ UNCHANGED <<tv, shadow, pushes, pops, popped, phase, it, into, obs, bulkVars>>

\* ta.pop(); tb.pop()
PopBoth ==
    /\ fault = "none" /\ pending = <<>>
    /\ LET ra == pop(vs["a"])
           rb == pop(vs["b"])
       IN  /\ vs' = [vs EXCEPT !["a"] = ra.v, !["b"] = rb.v]
           /\ fault' = IF ra.fault # "none" THEN ra.fault ELSE rb.fault
    /\ cmp' = NoCmp
    /\ plain' = FALSE
    /\ UNCHANGED <<tv, shadow, pushes, pops, popped, phase, it, into, obs, pending>>

\* ta.extend(items); the same items are left for tb to push one at a time.
\* cmp.fedL keeps the items and cmp.res whether ta had spilled before the call.
ExtendA(items) ==
    /\ fault = "none" /\ pending = <<>>
    /\ len(vs["a"]) + Len(items) <= MaxPushes
    /\ LET r == extend(vs["a"], items) IN
        /\ vs' = [vs EXCEPT !["a"] = r.v]
        /\ fault' = r.fault
    /\ cmp' = [op |-> "extend", l |-> "a", r |-> "b", res |-> has_spilled(vs["a"]),
               fedL |-> items, fedR |-> <<>>]
    /\ pending' = items
    /\ plain' = FALSE
    /\ UNCHANGED <<tv, shadow, pushes, pops, popped, phase, it, into, obs>>

\* let ta = TinyVec::from(items), in place of ta = TinyVec::new()
FromA(items) ==
    /\ fault = "none" /\ pending = <<>>
    /\ plain /\ len(vs["a"]) = 0 /\ len(vs["b"]) = 0
    /\ LET r == from(vs["a"].cap, items) IN
        /\ vs' = [vs EXCEPT !["a"] = r.v]
        /\ fault' = r.fault
    /\ cmp' = [op |-> "from", l |-> "a", r |-> "b", res |-> FALSE,
               fedL |-> items, fedR |-> <<>>]
    /\ pending' = items
    /\ plain' = FALSE
    /\ UNCHANGED <<tv, shadow, pushes, pops, popped, phase, it, into, obs>>

\* tb.push(the next pending item)
PushB ==
    /\ fault = "none" /\ pending # <<>>
    /\ LET r == push(vs["b"], Head(pending)) IN
        /\ vs' = [vs EXCEPT !["b"] = r.v]
        /\ fault' = r.fault
    /\ pending' = Tail(pending)
    /\ UNCHANGED <<tv, shadow, pushes, pops, popped, phase, it, into, obs, cmp, plain>>

NextBulk ==
    \/ \E item \in Vals : PushBoth(item)
    \/ PopBoth
    \/ \E items \in SeqsUpTo(MaxPushes) : ExtendA(items)
    \/ \E items \in SeqsUpTo(MaxPushes) : FromA(items)
    \/ PushB
    \/ \E l \in Inst, r \in Inst : Compare(l, r)

SpecBulk == InitBulk /\ [][NextBulk]_vars

\* ------------------------------ SpecEq3: three instances compared in a chain

Inst3 == {"a", "b", "c"}

InitEq3 ==
    /\ tv = new(0)
    /\ shadow = <<>>
    /\ pushes = 0
    /\ pops = 0
    /\ popped = 0
    /\ phase = "owned"
    /\ it = 0
    /\ into = NoInto
    /\ obs = NoObs
    /\ fault = "none"
    /\ vs \in [Inst3 -> {new(n) : n \in 0..MaxCapEq}]
    /\ cmp = NoCmp
    /\ pending = <<>>
    /\ plain = TRUE

\* vs[x] == vs[y], vs[y] == vs[z] and vs[x] == vs[z]
CompareChain(x, y, z) ==
    /\ fault = "none"
    /\ cmp' = [op |-> "eq3", l |-> x, r |-> z,
               res |-> [xy |-> eq(vs[x], vs[y]), yz |-> eq(vs[y], vs[z]),
                        xz |-> eq(vs[x], vs[z])],
               fedL |-> <<>>, fedR |-> <<>>]
    /\ UNCHANGED <<specVars, vs, bulkVars>>

NextEq3 ==
    \/ \E i \in Inst3, item \in Vals : EqPush(i, item)
    \/ \E i \in Inst3 : EqPop(i)
    \/ \E x \in Inst3 : \E y \in Inst3 \ {x} : \E z \in Inst3 \ {x, y} :
            CompareChain(x, y, z)

SpecEq3 == InitEq3 /\ [][NextEq3]_vars

\* ---------------------------------------------------------------- claims

Max(a, b) == IF a >= b THEN a ELSE b

\* the element at logical index i of the present elements, as an Option
Present(i) == IF i < Len(shadow) THEN Some(shadow[i + 1]) ELSE None

\* C1: get(i) returns the i-th of the currently present elements in push
\* order when i < len(), and the empty result when i >= len(), without fault,
\* in Inline and in Heap mode.
C1_GetReturnsIth ==
    obs.op = "get" =>
        /\ fault = "none"
        /\ len(tv) = Len(shadow)
        /\ (obs.arg < len(tv) => obs.ret = Some(shadow[obs.arg + 1]))
        /\ (obs.arg >= len(tv) => obs.ret = None)

C1_Witness ==
    /\ obs.op = "get" /\ obs.arg >= 1 /\ obs.arg < len(tv)
    /\ has_spilled(tv) /\ popped > 0

\* C2: pop() on an empty container returns the empty result and changes
\* nothing; pop() on a non-empty one returns the element at logical index
\* length-1 (the most recently pushed one not yet popped), decreases length by
\* exactly 1 and leaves the elements at the indices below unchanged.
C2_PopReturnsLast ==
    [][pops' = pops + 1 =>
        IF len(tv) = 0
        THEN obs'.ret = None /\ tv' = tv
        ELSE /\ obs'.ret = get(tv, len(tv) - 1).ret
             /\ obs'.ret = Some(shadow[Len(shadow)])
             /\ len(tv') = len(tv) - 1
             /\ has_spilled(tv') = has_spilled(tv)
             /\ \A i \in 0..(len(tv) - 2) : get(tv', i).ret = get(tv, i).ret
      ]_vars

C2_Witness ==
    /\ obs.op = "pop" /\ obs.ret # None
    /\ has_spilled(tv) /\ len(tv) >= 2

\* C3: has_spilled() turns from false to true in exactly the push calls that
\* begin Inline with length == N; with pushes only it is false after each of
\* the first N pushes and true after the (N+1)-th.
C3_SpillExactlyAtOverflow ==
    /\ [][(~has_spilled(tv) /\ has_spilled(tv'))
            <=> (pushes' = pushes + 1 /\ ~has_spilled(tv) /\ len(tv) = tv.cap)]_vars
    /\ [](pops = 0 => (has_spilled(tv) <=> pushes > tv.cap))

C3_Witness ==
    /\ obs.op = "push" /\ has_spilled(tv)
    /\ pops = 0 /\ pushes = tv.cap + 1 /\ tv.cap > 0

\* C4: once has_spilled() is true it stays true, whatever call follows, also
\* when pops bring the length below N or to 0.
C4_SpillIsMonotone ==
    [][has_spilled(tv) => has_spilled(tv')]_vars

C4_Witness ==
    /\ obs.op = "pop" /\ has_spilled(tv) /\ len(tv) = 0 /\ tv.cap > 0

\* C5: a fresh iter() yields the element at logical index k on its k-th call
\* for every k < len() and the empty result once the cursor reaches len().
C5_IterYieldsEveryElement ==
    obs.op = "iter_next" =>
        obs.ret = (IF obs.arg < len(tv) THEN Present(obs.arg) ELSE None)

\* len equal and the elements equal at every index
SameContents(a, b) ==
    /\ len(a) = len(b)
    /\ \A i \in 0..(len(a) - 1) : get(a, i).ret = get(b, i).ret

\* C6: a == b is true iff the lengths are equal and the elements are equal at
\* every index, the last one included, whatever the capacities and modes.
C6_EqIffSameContents ==
    cmp.op = "eq" => (cmp.res <=> SameContents(vs[cmp.l], vs[cmp.r]))

\* C7: two instances of the same inline capacity that compare equal feed the
\* same sequence of inputs to the hasher.
C7_EqualInstancesHashEqual ==
    (/\ cmp.op = "hash"
     /\ vs[cmp.l].cap = vs[cmp.r].cap
     /\ eq(vs[cmp.l], vs[cmp.r]))
        => cmp.fedL = cmp.fedR

\* C8: collecting iter() and collecting into_iter() on the same contents give
\* the same sequence, and each yields len() elements.
C8_IterAndIntoIterAgree ==
    obs.op = "collect" =>
        /\ obs.ret[1] = obs.ret[2]
        /\ Len(obs.ret[1]) = len(tv)
        /\ Len(obs.ret[2]) = len(tv)

\* C9 as claimed: len() equals max(0, P - Q), P the push calls and Q all the
\* pop calls made so far, those on an empty container included.
C9_LenIsPushesMinusAllPops ==
    len(tv) = Max(0, pushes - pops)

\* C9 as amended: len() equals P minus the number of pop calls that returned
\* an element; a pop on an empty container is not counted.
C9_LenIsPushesMinusPopped ==
    len(tv) = pushes - popped

C9_Witness ==
    /\ obs.op = "push" /\ pops > popped /\ popped > 0 /\ len(tv) > 0

\* C10: the consuming iterator yields the element that was at logical index k
\* on its k-th call for every k < len(), and the empty result on every call
\* after that, in either mode.
C10_IntoIterYieldsEachOnce ==
    obs.op = "into_next" =>
        /\ fault = "none"
        /\ len(tv) = Len(shadow)
        /\ obs.ret = (IF obs.arg < len(tv) THEN Present(obs.arg) ELSE None)

C10_Witness ==
    /\ obs.op = "into_next" /\ obs.arg = len(tv) + 1
    /\ len(tv) >= 2 /\ into.tag = "Stack" /\ popped > 0

\* C11: two instances with different inline capacities built from new() by
\* pushing the same sequence of values compare equal, whichever of them has
\* spilled.
C11_SamePushesCompareEqual ==
    (/\ cmp.op = "eq" /\ cmp.l # cmp.r
     /\ plain /\ pending = <<>>
     /\ vs[cmp.l].cap # vs[cmp.r].cap)
        => cmp.res = TRUE

C11_Witness ==
    /\ cmp.op = "eq" /\ cmp.l # cmp.r /\ cmp.res = TRUE
    /\ plain /\ pending = <<>>
    /\ has_spilled(vs[cmp.l]) /\ ~has_spilled(vs[cmp.r])
    /\ len(vs[cmp.l]) >= 2

\* C12: extend(s) leaves the container in exactly the state (length, storage
\* mode, element at every index) that pushing the items of s one by one
\* reaches from the same starting state.
C12_ExtendIsRepeatedPush ==
    (/\ cmp.op = "extend" /\ pending = <<>>
     /\ vs["a"].cap = vs["b"].cap)
        => /\ vs["a"] = vs["b"]
           /\ len(vs["a"]) = len(vs["b"])
           /\ has_spilled(vs["a"]) = has_spilled(vs["b"])
           /\ \A i \in Indices : get(vs["a"], i).ret = get(vs["b"], i).ret

\* the extend started Inline and spilled on the way
C12_Witness ==
    /\ cmp.op = "extend" /\ pending = <<>>
    /\ vs["a"].cap = vs["b"].cap /\ vs["a"].cap >= 1
    /\ Len(cmp.fedL) >= 2
    /\ cmp.res = FALSE /\ has_spilled(vs["a"])
    /\ len(vs["a"]) = vs["a"].cap + 1
    /\ vs["a"].heap[1] # vs["a"].heap[2]

\* C13: an instance of capacity N built from a producer of k elements has
\* len() == k, the i-th produced element at index i for every i < k, and
\* has_spilled() exactly when k > N.
C13_FromProducer ==
    cmp.op = "from" =>
        /\ fault = "none"
        /\ len(vs["a"]) = Len(cmp.fedL)
        /\ \A i \in 0..(Len(cmp.fedL) - 1) : get(vs["a"], i).ret = Some(cmp.fedL[i + 1])
        /\ has_spilled(vs["a"]) <=> (Len(cmp.fedL) > vs["a"].cap)

C13_Witness ==
    /\ cmp.op = "from" /\ pending = cmp.fedL
    /\ Len(cmp.fedL) = vs["a"].cap + 2 /\ vs["a"].cap >= 1
    /\ has_spilled(vs["a"])
    /\ cmp.fedL[1] # cmp.fedL[2]

\* C14: with inline capacity 0, new() is an empty Inline instance, the first
\* push spills and stores the item without fault, and from then on push, pop
\* and get behave as on a Heap instance of any other capacity.
C14_ZeroCapacity ==
    tv.cap = 0 =>
        /\ fault = "none"
        /\ pushes = 0 => (~has_spilled(tv) /\ len(tv) = 0 /\ tv.stack = <<>>)
        /\ pushes > 0 =>
            /\ has_spilled(tv) /\ tv.heap = shadow /\ len(tv) = Len(shadow)
            /\ \A n \in Caps :
                LET w == [tv EXCEPT !.cap = n] IN
                /\ \A item \in Vals : push(w, item) = [push(tv, item) EXCEPT !.v.cap = n]
                /\ pop(w) = [pop(tv) EXCEPT !.v.cap = n]
                /\ \A i \in Indices : get(w, i) = [get(tv, i) EXCEPT !.v.cap = n]

C14_Witness ==
    /\ tv.cap = 0 /\ obs.op = "pop" /\ obs.ret # None
    /\ pushes >= 2 /\ len(tv) >= 1

\* C15: while Inline, length <= N, slots 0..length-1 are occupied and hold
\* the present elements in push order, and slots length..N-1 are empty, after
\* any interleaving of push, pop and get_mut.
C15_InlineSlots ==
    tv.tag = "Stack" =>
        /\ len(tv) <= tv.cap
        /\ Len(tv.stack) = tv.cap
        /\ len(tv) = Len(shadow)
        /\ \A k \in 1..tv.cap :
            tv.stack[k] = (IF k <= len(tv) THEN Some(shadow[k]) ELSE None)

C15_Witness ==
    /\ tv.tag = "Stack" /\ obs.op = "get_mut" /\ obs.ret # None
    /\ popped > 0 /\ len(tv) >= 1 /\ len(tv) < tv.cap

\* C16: the push that spills (Inline, length == N, item x) leaves a Heap
\* instance of length N+1 whose element at every index i < N is the one that
\* occupied inline slot i, in the same order, and whose element at index N is x.
C16_SpillPreservesContents ==
    [][(pushes' = pushes + 1 /\ tv.tag = "Stack" /\ len(tv) = tv.cap) =>
        /\ fault' = "none"
        /\ has_spilled(tv')
        /\ len(tv') = tv.cap + 1
        /\ Len(tv'.heap) = tv.cap + 1
        /\ \A i \in 0..(tv.cap - 1) : get(tv', i).ret = tv.stack[i + 1]
        /\ get(tv', tv.cap).ret = Some(obs'.arg)
      ]_vars

C16_Witness ==
    /\ obs.op = "push" /\ has_spilled(tv)
    /\ tv.cap >= 2 /\ len(tv) = tv.cap + 1 /\ pushes = len(tv) /\ pops = 0
    /\ tv.heap[1] # tv.heap[2]

\* the hasher's input for the present elements: (0, e0), ..., (L-1, e(L-1))
IndexedPairs(v) == [k \in 1..len(v) |-> <<k - 1, get(v, k - 1).ret[1]>>]

\* C17: hashing an instance of length L feeds the hasher exactly the L pairs
\* (0, e0), ..., (L-1, e(L-1)) in that order, in either mode.
C17_HashFeedsEveryPair ==
    cmp.op = "hash" => cmp.fedL = IndexedPairs(vs[cmp.l])

\* C18: a write through get_mut(i) with i < len() replaces the element at
\* index i only (get(i) then returns the written value; length, mode and every
\* other element are unchanged); with i >= len() it returns the empty result
\* and changes nothing.
C18_GetMutWritesOneElement ==
    [][obs'.op = "get_mut" =>
        LET i == obs'.arg IN
        IF i < len(tv)
        THEN /\ obs'.ret = get(tv, i).ret /\ obs'.ret # None
             /\ get(tv', i).ret = Some(shadow'[i + 1])
             /\ len(tv') = len(tv)
             /\ has_spilled(tv') = has_spilled(tv)
             /\ \A j \in Indices \ {i} : get(tv', j).ret = get(tv, j).ret
        ELSE obs'.ret = None /\ tv' = tv
      ]_vars

C18_Witness ==
    /\ obs.op = "get_mut" /\ obs.ret # None
    /\ get(tv, obs.arg).ret # obs.ret
    /\ has_spilled(tv) /\ len(tv) >= 3 /\ obs.arg = 1

\* C19: no sequence of calls reaches a fault, for any capacity: spill unwraps
\* occupied slots only, every inline index used is < N, and in Heap mode the
\* buffer holds exactly length elements, so pop with length > 0 gets one.
C19_NoFault ==
    /\ fault = "none"
    /\ tv.tag = "Stack" => (len(tv) <= Len(tv.stack) /\ Len(tv.stack) = tv.cap)
    /\ (tv.tag = "Stack" /\ len(tv) = tv.cap) => \A k \in 1..tv.cap : tv.stack[k] # None
    /\ tv.tag = "Heap" => Len(tv.heap) = len(tv)

C19_Witness ==
    /\ obs.op = "into_next" /\ obs.ret # None /\ into.tag = "Stack"
    /\ tv.cap >= 2 /\ len(tv) = tv.cap /\ popped > 0 /\ fault = "none"

\* C20: == is transitive across storage modes and capacities: if a == b and
\* b == c then a == c.
C20_EqIsTransitive ==
    cmp.op = "eq3" => ((cmp.res.xy /\ cmp.res.yz) => cmp.res.xz)

====
